---- MODULE Spec2Model ----
(***************************************************************************)
(* A model of src/functions/notify_slack.py: one invocation of             *)
(* lambda_handler, from the SNS event to the returned response or the      *)
(* exception that ends the invocation.                                     *)
(*                                                                         *)
(* Python values are tagged records [t, v]:                                *)
(*   t = "str"   v a string            t = "int"   v an integer            *)
(*   t = "float" v in hundredths       t = "bool"  v a BOOLEAN             *)
(*   t = "null"  v = 0 (None)          t = "list"  v a sequence of values  *)
(*   t = "dict"  v a sequence of <<key, value>> pairs in insertion order   *)
(***************************************************************************)
EXTENDS Integers, Sequences, FiniteSets, TLC

(* ---------------------------------------------------------------- bounds *)
\* Longest padded string value of a generic message (25 is the threshold).
MaxLen == 26
\* Largest GuardDuty severity of the sweep, in hundredths (10.00).
MaxSeverity == 1000

(* ------------------------------------------------------- Python values *)
JStr(s) == [t |-> "str", v |-> s]
JInt(n) == [t |-> "int", v |-> n]
JFloat(h) == [t |-> "float", v |-> h]
JBool(b) == [t |-> "bool", v |-> b]
JNull == [t |-> "null", v |-> 0]
JList(q) == [t |-> "list", v |-> q]
JDict(q) == [t |-> "dict", v |-> q]

\* k in d.keys()
Has(d, k) == \E i \in 1..Len(d.v) : d.v[i][1] = k
\* d[k] for a key that is present
Get(d, k) == d.v[CHOOSE i \in 1..Len(d.v) : d.v[i][1] = k][2]
\* d[k] = x : replaces the value in place, or appends a new key
Put(d, k, x) ==
  IF Has(d, k)
  THEN JDict([i \in 1..Len(d.v) |-> IF d.v[i][1] = k THEN <<k, x>> ELSE d.v[i]])
  ELSE JDict(Append(d.v, <<k, x>>))
Keys(d) == {d.v[i][1] : i \in 1..Len(d.v)}

(* ------------------------------------------------------------- strings *)
\* s.startswith(p)
StartsWith(s, p) == Len(s) >= Len(p) /\ SubSeq(s, 1, Len(p)) = p
\* p in s, for two strings
Contains(s, p) ==
  \E i \in 1..(Len(s) - Len(p) + 1) : SubSeq(s, i, i + Len(p) - 1) = p

RECURSIVE SplitFrom(_, _, _, _)
SplitFrom(s, sep, i, cur) ==
  IF i > Len(s) THEN <<cur>>
  ELSE IF SubSeq(s, i, i) = sep THEN <<cur>> \o SplitFrom(s, sep, i + 1, "")
  ELSE SplitFrom(s, sep, i + 1, cur \o SubSeq(s, i, i))
\* s.split(sep) for a one-character separator
Split(s, sep) == SplitFrom(s, sep, 1, "")

Digit(d) == SubSeq("0123456789", d + 1, d + 1)
RECURSIVE NatStr(_)
NatStr(n) == IF n < 10 THEN Digit(n) ELSE NatStr(n \div 10) \o Digit(n % 10)
\* str(n) for an int
IntStr(n) == IF n < 0 THEN "-" \o NatStr(0 - n) ELSE NatStr(n)
\* str(x) for a float given in hundredths (shortest repr: 3.9, 4.0, 6.99)
FloatStr(h) ==
  LET a == IF h < 0 THEN 0 - h ELSE h IN
  (IF h < 0 THEN "-" ELSE "") \o NatStr(a \div 100) \o "." \o
  (IF a % 10 = 0 THEN Digit((a % 100) \div 10)
   ELSE Digit((a % 100) \div 10) \o Digit(a % 10))

RECURSIVE Pad(_)
\* a string of n characters
Pad(n) == IF n = 0 THEN "" ELSE Pad(n - 1) \o "x"

(* ---------------------------------------------------------- json.dumps *)
RECURSIVE EscapeFrom(_, _)
\* the characters json.dumps escapes, among those the model's texts hold
EscapeFrom(s, i) ==
  IF i > Len(s) THEN ""
  ELSE LET c == SubSeq(s, i, i)
       IN (CASE c = "\"" -> "\\\""
             [] c = "\\" -> "\\\\"
             [] c = "\n" -> "\\n"
             [] OTHER -> c) \o EscapeFrom(s, i + 1)

RECURSIVE Dumps(_)
RECURSIVE DumpsItems(_, _)
RECURSIVE DumpsPairs(_, _)
DumpsItems(q, i) ==
  IF i > Len(q) THEN ""
  ELSE (IF i > 1 THEN ", " ELSE "") \o Dumps(q[i]) \o DumpsItems(q, i + 1)
DumpsPairs(q, i) ==
  IF i > Len(q) THEN ""
  ELSE (IF i > 1 THEN ", " ELSE "") \o "\"" \o EscapeFrom(q[i][1], 1) \o "\": "
       \o Dumps(q[i][2]) \o DumpsPairs(q, i + 1)
\* json.dumps(x) with the default separators
Dumps(x) ==
  CASE x.t = "str" -> "\"" \o EscapeFrom(x.v, 1) \o "\""
    [] x.t = "int" -> IntStr(x.v)
    [] x.t = "float" -> FloatStr(x.v)
    [] x.t = "bool" -> IF x.v THEN "true" ELSE "false"
    [] x.t = "null" -> "null"
    [] x.t = "list" -> "[" \o DumpsItems(x.v, 1) \o "]"
    [] x.t = "dict" -> "{" \o DumpsPairs(x.v, 1) \o "}"

\* str(x) for a value that is neither a dict nor a list
PyStr(x) ==
  CASE x.t = "str" -> x.v
    [] x.t = "int" -> IntStr(x.v)
    [] x.t = "float" -> FloatStr(x.v)
    [] x.t = "bool" -> IF x.v THEN "True" ELSE "False"
    [] x.t = "null" -> "None"

(* ---------------------------------------------------------- json.loads *)
\* A recursive-descent reading of a JSON text. A parse yields
\* [ok, val, next]: next is the position after the value. Numbers carry at
\* most two fraction digits and no exponent; escapes are \" \\ \/ \n \t.
Ch(s, i) == IF i >= 1 /\ i <= Len(s) THEN SubSeq(s, i, i) ELSE ""
PFail == [ok |-> FALSE, val |-> JNull, next |-> 0]
POk(x, n) == [ok |-> TRUE, val |-> x, next |-> n]
IsDigit(c) == c # "" /\ Contains("0123456789", c)
DigitVal(c) == (CHOOSE d \in 1..10 : SubSeq("0123456789", d, d) = c) - 1

\* the text lit stands at position i of s
At(s, i, lit) ==
  i + Len(lit) - 1 <= Len(s) /\ SubSeq(s, i, i + Len(lit) - 1) = lit

RECURSIVE SkipWs(_, _)
SkipWs(s, i) ==
  IF Ch(s, i) \in {" ", "\n", "\t", "\r"} THEN SkipWs(s, i + 1) ELSE i

RECURSIVE ParseString(_, _, _)
\* i is the position after the opening quote
ParseString(s, i, acc) ==
  LET c == Ch(s, i) IN
  CASE c = "" -> PFail
    [] c = "\"" -> POk(JStr(acc), i + 1)
    [] c \in {"\n", "\t", "\r"} -> PFail
    [] c = "\\" ->
         LET d == Ch(s, i + 1) IN
         CASE d \in {"\"", "\\", "/"} -> ParseString(s, i + 2, acc \o d)
           [] d = "n" -> ParseString(s, i + 2, acc \o "\n")
           [] d = "t" -> ParseString(s, i + 2, acc \o "\t")
           [] OTHER -> PFail
    [] OTHER -> ParseString(s, i + 1, acc \o c)

RECURSIVE DigitsEnd(_, _)
\* the position after the run of digits that starts at i
DigitsEnd(s, i) == IF IsDigit(Ch(s, i)) THEN DigitsEnd(s, i + 1) ELSE i
RECURSIVE DigitsVal(_, _, _, _)
DigitsVal(s, i, j, acc) ==
  IF i >= j THEN acc ELSE DigitsVal(s, i + 1, j, acc * 10 + DigitVal(Ch(s, i)))

ParseNumber(s, i) ==
  LET neg == Ch(s, i) = "-"
      a == IF neg THEN i + 1 ELSE i
      b == IF Ch(s, a) = "0" THEN a + 1 ELSE DigitsEnd(s, a)
      whole == DigitsVal(s, a, b, 0)
      sign == IF neg THEN -1 ELSE 1
  IN IF b = a THEN PFail
     ELSE IF Ch(s, b) = "." THEN
       LET e == DigitsEnd(s, b + 1)
           frac == IF e = b + 2 THEN 10 * DigitVal(Ch(s, b + 1))
                   ELSE DigitsVal(s, b + 1, e, 0)
       IN IF e = b + 1 \/ e > b + 3 THEN PFail
          ELSE POk(JFloat(sign * (whole * 100 + frac)), e)
     ELSE POk(JInt(sign * whole), b)

RECURSIVE ParseValue(_, _)
RECURSIVE ParseArray(_, _, _)
RECURSIVE ParseObject(_, _, _)
\* i is the position of the next element; acc the elements read so far
ParseArray(s, i, acc) ==
  LET r == ParseValue(s, SkipWs(s, i)) IN
  IF ~r.ok THEN PFail
  ELSE LET j == SkipWs(s, r.next)
           got == Append(acc, r.val)
       IN CASE Ch(s, j) = "," -> ParseArray(s, j + 1, got)
            [] Ch(s, j) = "]" -> POk(JList(got), j + 1)
            [] OTHER -> PFail
\* i is the position of the next key; acc the dict read so far
ParseObject(s, i, acc) ==
  LET a == SkipWs(s, i) IN
  IF Ch(s, a) # "\"" THEN PFail
  ELSE LET k == ParseString(s, a + 1, "") IN
    IF ~k.ok THEN PFail
    ELSE LET c == SkipWs(s, k.next) IN
      IF Ch(s, c) # ":" THEN PFail
      ELSE LET r == ParseValue(s, SkipWs(s, c + 1)) IN
        IF ~r.ok THEN PFail
        ELSE LET j == SkipWs(s, r.next)
                 got == Put(acc, k.val.v, r.val)
             IN CASE Ch(s, j) = "," -> ParseObject(s, j + 1, got)
                  [] Ch(s, j) = "}" -> POk(got, j + 1)
                  [] OTHER -> PFail
ParseValue(s, i) ==
  LET c == Ch(s, i) IN
  CASE c = "{" ->
         IF Ch(s, SkipWs(s, i + 1)) = "}"
         THEN POk(JDict(<<>>), SkipWs(s, i + 1) + 1)
         ELSE ParseObject(s, i + 1, JDict(<<>>))
    [] c = "[" ->
         IF Ch(s, SkipWs(s, i + 1)) = "]"
         THEN POk(JList(<<>>), SkipWs(s, i + 1) + 1)
         ELSE ParseArray(s, i + 1, <<>>)
    [] c = "\"" -> ParseString(s, i + 1, "")
    [] c = "-" \/ IsDigit(c) -> ParseNumber(s, i)
    [] At(s, i, "true") -> POk(JBool(TRUE), i + 4)
    [] At(s, i, "false") -> POk(JBool(FALSE), i + 5)
    [] At(s, i, "null") -> POk(JNull, i + 4)
    [] OTHER -> PFail
\* json.loads(s): [ok, val]; ok = FALSE stands for json.JSONDecodeError
JsonLoads(s) ==
  LET r == ParseValue(s, SkipWs(s, 1)) IN
  IF r.ok /\ SkipWs(s, r.next) = Len(s) + 1 THEN r ELSE PFail

(* ---------------------------------------------------- Python operators *)
\* The outcome of an expression: a value, or the exception it raises.
Ok(x) == [err |-> "none", val |-> x]
Raise(e) == [err |-> e, val |-> JNull]
\* the first exception of a sequence of outcomes evaluated in order
FirstErr(rs) ==
  LET bad == {i \in 1..Len(rs) : rs[i].err # "none"} IN
  IF bad = {} THEN "none"
  ELSE rs[CHOOSE i \in bad : \A j \in bad : i <= j].err

\* k in m, for a string k
PyIn(k, m) ==
  CASE m.t = "dict" -> Ok(JBool(Has(m, k)))
    [] m.t = "str" -> Ok(JBool(Contains(m.v, k)))
    [] m.t = "list" ->
         Ok(JBool(\E i \in 1..Len(m.v) : m.v[i].t = "str" /\ m.v[i].v = k))
    [] OTHER -> Raise("TypeError")
\* m[k], for a string k
Subscript(m, k) ==
  CASE m.t = "dict" -> IF Has(m, k) THEN Ok(Get(m, k)) ELSE Raise("KeyError")
    [] OTHER -> Raise("TypeError")
\* m[k1][k2]
Subscript2(m, k1, k2) ==
  LET r == Subscript(m, k1) IN
  IF r.err # "none" THEN r ELSE Subscript(r.val, k2)
\* m[k1][k2][k3]
Subscript3(m, k1, k2, k3) ==
  LET r == Subscript2(m, k1, k2) IN
  IF r.err # "none" THEN r ELSE Subscript(r.val, k3)
\* "literal" + x : only a str can be added to a str
ConcatArg(r) ==
  IF r.err # "none" THEN r
  ELSE IF r.val.t = "str" THEN r ELSE Raise("TypeError")
\* bool(x)
Truthy(x) ==
  CASE x.t = "str" -> x.v # ""
    [] x.t \in {"int", "float"} -> x.v # 0
    [] x.t = "bool" -> x.v
    [] x.t = "null" -> FALSE
    [] x.t \in {"list", "dict"} -> Len(x.v) > 0

(* -------------------------------------------------- urllib.parse.quote *)
AlwaysSafe ==
  "ABCDEFGHIJKLMNOPQRSTUVWXYZabcdefghijklmnopqrstuvwxyz0123456789_.-~/"
\* the percent codes of the reserved characters the model's texts hold
PercentCode(c) ==
  CASE c = " " -> "%20"
    [] c = "\"" -> "%22"
    [] c = "#" -> "%23"
    [] c = "%" -> "%25"
    [] c = ":" -> "%3A"
    [] c = ";" -> "%3B"
    [] c = "=" -> "%3D"
    [] c = "?" -> "%3F"
RECURSIVE QuoteFrom(_, _)
QuoteFrom(s, i) ==
  IF i > Len(s) THEN ""
  ELSE LET c == SubSeq(s, i, i)
       IN (IF Contains(AlwaysSafe, c) THEN c ELSE PercentCode(c))
          \o QuoteFrom(s, i + 1)
\* urllib.parse.quote(x): a str is escaped, any other JSON value is refused
Quote(r) ==
  IF r.err # "none" THEN r
  ELSE IF r.val.t = "str" THEN Ok(JStr(QuoteFrom(r.val.v, 1)))
  ELSE Raise("TypeError")

(* ------------------------------------------- cloudwatch_notification *)
Field(title, value, short) ==
  JDict(<< <<"title", JStr(title)>>, <<"value", value>>, <<"short", JBool(short)>> >>)

GovHost == "https://console.amazonaws-us-gov.com/"
StdHost == "https://console.aws.amazon.com/"
\* the console host for a region
ConsoleHost(region) == IF StartsWith(region, "us-gov-") THEN GovHost ELSE StdHost

\* a slip: states.get(label, 'warning')
AlarmColorDefaulting(r) ==
  IF r.err # "none" THEN Ok(JStr("warning"))
  ELSE CASE r.val.t = "str" /\ r.val.v = "OK" -> Ok(JStr("good"))
         [] r.val.t = "str" /\ r.val.v = "ALARM" -> Ok(JStr("danger"))
         [] OTHER -> Ok(JStr("warning"))
\* states[label] of cloudwatch_notification
AlarmColor(r) ==
  IF r.err # "none" THEN r
  ELSE CASE r.val.t \in {"list", "dict"} -> Raise("TypeError")
         [] r.val.t = "str" /\ r.val.v = "OK" -> Ok(JStr("good"))
         [] r.val.t = "str" /\ r.val.v = "INSUFFICIENT_DATA" -> Ok(JStr("warning"))
         [] r.val.t = "str" /\ r.val.v = "ALARM" -> Ok(JStr("danger"))
         [] OTHER -> Raise("KeyError")

\* cloudwatch_notification(message, region): the attachment, or the exception
CloudwatchNotification(message, region) ==
  LET cloudwatch_url == ConsoleHost(region) \o "cloudwatch/home?region="
      color == AlarmColor(Subscript(message, "NewStateValue"))
      name == Subscript(message, "AlarmName")
      descr == Subscript(message, "AlarmDescription")
      reason == Subscript(message, "NewStateReason")
      old == Subscript(message, "OldStateValue")
      new == Subscript(message, "NewStateValue")
      quoted == Quote(name)
      err == FirstErr(<<color, name, descr, reason, old, new, quoted>>)
  IN IF err # "none" THEN Raise(err)
     ELSE Ok(JDict(<<
       <<"color", color.val>>,
       <<"fallback", JStr("Alarm " \o PyStr(name.val) \o " triggered")>>,
       <<"fields", JList(<<
          Field("Alarm Name", name.val, TRUE),
          Field("Alarm Description", descr.val, FALSE),
          Field("Alarm reason", reason.val, FALSE),
          Field("Old State", old.val, TRUE),
          Field("Current State", new.val, TRUE),
          Field("Link to Alarm",
                JStr(cloudwatch_url \o region \o "#alarm:alarmFilter=ANY;name="
                     \o quoted.val.v), FALSE) >>)>> >>))

(* ------------------------------------------------- guardduty_finding *)
\* x < bound for a severity x; bound in hundredths
LessThan(r, bound) ==
  IF r.err # "none" THEN r
  ELSE CASE r.val.t = "int" -> Ok(JBool(r.val.v * 100 < bound))
         [] r.val.t = "float" -> Ok(JBool(r.val.v < bound))
         [] r.val.t = "bool" -> Ok(JBool((IF r.val.v THEN 100 ELSE 0) < bound))
         [] OTHER -> Raise("TypeError")
\* a slip: <= 4.0 in place of < 4.0
SeverityInclusive(score) ==
  LET low == LessThan(score, 401) IN
  IF low.err # "none" THEN low
  ELSE IF low.val.v THEN Ok(JStr("Low"))
  ELSE IF LessThan(score, 700).val.v THEN Ok(JStr("Medium"))
  ELSE Ok(JStr("High"))
\* the if / elif / else of guardduty_finding
Severity(score) ==
  LET low == LessThan(score, 400) IN
  IF low.err # "none" THEN low
  ELSE IF low.val.v THEN Ok(JStr("Low"))
  ELSE IF LessThan(score, 700).val.v THEN Ok(JStr("Medium"))
  ELSE Ok(JStr("High"))
\* states[severity] of guardduty_finding
FindingColor(severity) ==
  CASE severity = "Low" -> "#777777"
    [] severity = "Medium" -> "warning"
    [] severity = "High" -> "danger"

\* guardduty_finding(message, region): region is the value the caller passes
GuarddutyFinding(message, region) ==
  LET starts == IF region.t = "str" THEN Ok(region) ELSE Raise("AttributeError")
      severity == Severity(Subscript2(message, "detail", "severity"))
      title == Subscript2(message, "detail", "title")
      descr == Subscript2(message, "detail", "description")
      type == Subscript2(message, "detail", "type")
      first == Subscript3(message, "detail", "service", "eventFirstSeen")
      last == Subscript3(message, "detail", "service", "eventLastSeen")
      count == Subscript3(message, "detail", "service", "count")
      id == ConcatArg(Subscript2(message, "detail", "id"))
      err == FirstErr(<<starts, severity, title, descr, type, first, last, count, id>>)
  IN IF err # "none" THEN Raise(err)
     ELSE Ok(JDict(<<
       <<"color", JStr(FindingColor(severity.val.v))>>,
       <<"fallback", JStr("GuardDuty Finding: " \o PyStr(title.val))>>,
       <<"fields", JList(<<
          Field("Description", descr.val, FALSE),
          Field("Finding type", type.val, FALSE),
          Field("First Seen", first.val, TRUE),
          Field("Last Seen", last.val, TRUE),
          Field("Severity", severity.val, TRUE),
          Field("Count", count.val, TRUE),
          Field("Link to Finding",
                JStr(ConsoleHost(region.v) \o "guardduty/home?region=" \o region.v
                     \o "#/findings?search=id%3D" \o id.val.v), FALSE) >>)>> >>))

(* ---------------------------------------------- default_notification *)
\* The backquote character of the f-string. A TLA+ string cannot hold a
\* backquote, so the one-character string "^" stands for it.
Backquote == "^"
\* the rendered value of one entry
RenderValue(x) ==
  IF x.t \in {"dict", "list"} THEN Backquote \o Dumps(x) \o Backquote
  ELSE PyStr(x)
\* a slip: len(value) <= 25
EntryFieldInclusive(k, x) ==
  Field(k, JStr(RenderValue(x)), Len(RenderValue(x)) <= 25)
\* the field of one entry k: x
EntryField(k, x) == Field(k, JStr(RenderValue(x)), Len(RenderValue(x)) < 25)
\* the fields list of default_notification
DefaultFields(message) ==
  IF message.t = "dict"
  THEN [i \in 1..Len(message.v) |-> EntryField(message.v[i][1], message.v[i][2])]
  ELSE << JDict(<< <<"value", message>>, <<"short", JBool(FALSE)>> >>) >>
\* default_notification(subject, message)
DefaultNotification(subject, message) ==
  JDict(<<
    <<"fallback", JStr("A new message")>>,
    <<"title", IF Truthy(subject) THEN subject ELSE JStr("Message")>>,
    <<"mrkdwn_in", JList(<<JStr("value")>>)>>,
    <<"fields", JList(DefaultFields(message))>> >>)

(* ------------------------------------------------------- notify_slack *)
\* a slip: decrypt whatever the webhook value is
NeedsDecryptAlways(url) == TRUE
\* line 103: the configured webhook value is not a URL literal
NeedsDecrypt(url) == ~StartsWith(url, "http")

\* lines 111-116: the base envelope
BasePayload(channel, username, emoji) ==
  JDict(<< <<"channel", JStr(channel)>>, <<"username", JStr(username)>>,
           <<"icon_emoji", JStr(emoji)>>, <<"attachments", JList(<<>>)>> >>)
\* lines 118-120
Prefix(environment_name) ==
  IF environment_name # "" THEN "[" \o environment_name \o "] " ELSE ""

\* lines 122-126: the message after the parse step
ParsedMessage(message) ==
  IF message.t = "str" /\ JsonLoads(message.v).ok
  THEN JsonLoads(message.v).val ELSE message
\* line 125: json.loads raised JSONDecodeError
DecodeFails(message) == message.t = "str" /\ ~JsonLoads(message.v).ok

\* lines 128, 132, 136, 138: the branch the if / elif chain takes, or the
\* exception one of its conditions raises
Classify(message) ==
  LET alarm == PyIn("AlarmName", message)
      dtype == PyIn("detail-type", message)
      dval == Subscript(message, "detail-type")
      att == PyIn("attachments", message)
      text == PyIn("text", message)
  IN IF alarm.err # "none" THEN alarm
     ELSE IF alarm.val.v THEN Ok(JStr("Alarm"))
     ELSE IF dtype.err # "none" THEN dtype
     ELSE IF dtype.val.v /\ dval.err # "none" THEN dval
     ELSE IF dtype.val.v /\ dval.val.t = "str" /\ dval.val.v = "GuardDuty Finding"
       THEN Ok(JStr("Finding"))
     ELSE IF att.err # "none" THEN att
     ELSE IF att.val.v THEN Ok(JStr("Preformatted"))
     ELSE IF text.err # "none" THEN text
     ELSE IF text.val.v THEN Ok(JStr("Preformatted"))
     ELSE Ok(JStr("Generic"))

\* a slip: the notification is built and never appended
WithNotificationDropped(payload, text, notification) ==
  Put(payload, "text", JStr(text))
\* payload['text'] = text ; payload['attachments'].append(notification)
WithNotification(payload, text, notification) ==
  Put(Put(payload, "text", JStr(text)), "attachments",
      JList(Append(Get(payload, "attachments").v, notification)))

\* lines 129-131
AlarmPayload(payload, prefix, message, region) ==
  LET notification == CloudwatchNotification(message, region)
      name == ConcatArg(Subscript(message, "AlarmName"))
      err == FirstErr(<<notification, name>>)
  IN IF err # "none" THEN Raise(err)
     ELSE Ok(WithNotification(payload,
               prefix \o "AWS CloudWatch notification - " \o name.val.v,
               notification.val))

\* a slip: guardduty_finding(message, region)
FindingRegionOfCaller(message, region) == Ok(JStr(region))
\* line 133: the region guardduty_finding is called with
FindingRegion(message, region) == Subscript(message, "region")
\* lines 133-135
FindingPayload(payload, prefix, message, region) ==
  LET reg == FindingRegion(message, region)
      notification == IF reg.err # "none" THEN reg
                      ELSE GuarddutyFinding(message, reg.val)
      title == ConcatArg(Subscript2(message, "detail", "title"))
      err == FirstErr(<<reg, notification, title>>)
  IN IF err # "none" THEN Raise(err)
     ELSE Ok(WithNotification(payload,
               prefix \o "Amazon GuardDuty Finding - " \o title.val.v,
               notification.val))

RECURSIVE MergeFrom(_, _, _)
MergeFrom(a, b, i) ==
  IF i > Len(b.v) THEN a ELSE MergeFrom(Put(a, b.v[i][1], b.v[i][2]), b, i + 1)
\* a slip: {**b, **a}, the base envelope winning
MergeBaseWins(a, b) == MergeFrom(b, a, 1)
\* {**a, **b} for two dicts
Merge(a, b) == MergeFrom(a, b, 1)
\* line 137
PreformattedPayload(payload, message) ==
  IF message.t = "dict" THEN Ok(Merge(payload, message)) ELSE Raise("TypeError")

\* lines 139-140
GenericPayload(payload, prefix, subject, message) ==
  Ok(WithNotification(payload, prefix \o "AWS notification",
                      DefaultNotification(subject, message)))

\* lines 147, 151: the value notify_slack returns
ResponseText(code, info) ==
  Dumps(JDict(<< <<"code", JInt(code)>>, <<"info", JStr(info)>> >>))
\* line 163
IsError(response) == Get(JsonLoads(response).val, "code") # JInt(200)

(* -------------------------------------------------------------- inputs *)
Regions == {"us-east-1", "us-gov-west-1"}
TopicArns == {"arn:aws:sns:us-east-1:123456789012:alerts",
              "arn:aws-us-gov:sns:us-gov-west-1:123456789012:alerts"}
WebhookUrls == {"https://hooks.slack.com/services/T0/B0/XX", "AQICAHhEncrypted"}
Plaintext == "https://hooks.slack.com/services/T1/B1/YY"
EnvironmentNames == {"", "prod"}
Subjects == {JNull, JStr("Test")}
\* urlopen returns for a 2xx status and raises HTTPError for any other
ReturnedCodes == {200, 204}
HTTPErrorCodes == {404, 500}
Info == "Content-Type: text/html\n\n"

AlarmMessage(name, state) ==
  JDict(<< <<"AlarmName", JStr(name)>>,
           <<"AlarmDescription", JStr("CPU above 90%")>>,
           <<"NewStateValue", state>>,
           <<"NewStateReason", JStr("Threshold Crossed")>>,
           <<"OldStateValue", JStr("OK")>>,
           <<"Region", JStr("US East (N. Virginia)")>> >>)
AlarmMessages ==
  {AlarmMessage(n, JStr(st)) :
     n \in {"cpu-high", "disk full: /var"},
     st \in {"OK", "INSUFFICIENT_DATA", "ALARM", "UNKNOWN", "ok"}}
  \cup {AlarmMessage("cpu-high", JNull),
        JDict(<< <<"AlarmName", JStr("cpu-high")>> >>)}

FindingMessage(score, region) ==
  JDict(<< <<"detail-type", JStr("GuardDuty Finding")>>,
           <<"region", JStr(region)>>,
           <<"detail", JDict(<<
              <<"id", JStr("16afba5c5c43e07c9e3e5e2e544e95df")>>,
              <<"severity", score>>,
              <<"title", JStr("Unprotected port on EC2 instance")>>,
              <<"description", JStr("EC2 instance has an unprotected port")>>,
              <<"type", JStr("Recon:EC2/PortProbeUnprotectedPort")>>,
              <<"service", JDict(<<
                 <<"eventFirstSeen", JStr("2018-05-11T14:56:39Z")>>,
                 <<"eventLastSeen", JStr("2018-05-11T14:56:39Z")>>,
                 <<"count", JInt(1)>> >>)>> >>)>> >>)
\* severities in hundredths: every whole score, and every hundredth around
\* the two thresholds
Severities ==
  {h \in 0..MaxSeverity :
     h % 100 = 0 \/ (h >= 390 /\ h <= 410) \/ (h >= 690 /\ h <= 710) \/ h = 850}
FindingMessages ==
  {FindingMessage(JFloat(h), "us-east-1") : h \in Severities}
  \cup {FindingMessage(JFloat(850), r) : r \in Regions}
  \cup {FindingMessage(JInt(n), "us-gov-west-1") : n \in {3, 4, 7}}
  \cup {FindingMessage(JStr("high"), "us-east-1")}

PreformattedMessages ==
  { JDict(<< <<"text", JStr("hi")>>, <<"channel", JStr("#other")>> >>),
    JDict(<< <<"attachments", JList(<< JDict(<< <<"text", JStr("a")>> >>),
                                       JDict(<< <<"text", JStr("b")>> >>) >>)>> >>),
    JDict(<< <<"text", JStr("")>> >>),
    JDict(<< <<"blocks", JList(<<>>)>>, <<"text", JStr("hi")>>,
             <<"attachments", JList(<<>>)>>, <<"username", JStr("bot")>> >>) }

GenericMessages ==
  {JDict(<< <<"a", JStr(Pad(n))>>, <<"b", JList(<<JStr(Pad(n))>>)>>,
            <<"c", JInt(n)>> >>) : n \in 0..MaxLen}
  \cup { JDict(<<>>),
         JDict(<< <<"k", JDict(<< <<"x", JInt(1)>> >>)>>, <<"flag", JBool(TRUE)>>,
                  <<"none", JNull>>, <<"f", JFloat(390)>>,
                  <<"detail-type", JStr("Other")>> >>) }

OtherJson ==
  { JInt(123), JFloat(850), JBool(TRUE), JNull, JList(<<JInt(1), JInt(2)>>),
    JList(<<JStr("AlarmName")>>), JList(<<JStr("text")>>),
    JList(<<JStr("detail-type")>>), JStr("hello"), JStr("AlarmName") }

\* texts json.loads refuses
NonJsonTexts ==
  { "Hello world", "AlarmName cpu-high is in ALARM", "plain text notification",
    "detail-type: GuardDuty Finding", "new attachments", "{\"AlarmName\": " }

JsonValues ==
  AlarmMessages \cup FindingMessages \cup PreformattedMessages
  \cup GenericMessages \cup OtherJson
\* Sns.Message: the text SNS delivers, or the mapping a direct caller passes
Messages ==
  {JStr(Dumps(x)) : x \in JsonValues}
  \cup {JStr(s) : s \in NonJsonTexts}
  \cup {x \in AlarmMessages \cup PreformattedMessages \cup GenericMessages : TRUE}

(* --------------------------------------------------------------- state *)
VARIABLES
  env,        \* os.environ
  event,      \* the event lambda_handler receives
  pc,         \* the statement the invocation is at
  subject, message, region,   \* the arguments of notify_slack
  slack_url,  \* a str, or None after a failed decrypt
  payload,    \* the envelope under construction
  prefix,
  branch,     \* the branch of the if / elif chain, "" before it is chosen
  response,   \* the value notify_slack returned, "" before
  result,     \* the value lambda_handler returned, "" before
  fault,      \* the exception that ended the invocation, "none" otherwise
  faultAt,    \* the step that raised it
  calls,      \* the collaborators called so far, in order
  posted,     \* the envelopes handed to urlopen, in order
  log         \* the log records written, in order

vars == <<env, event, pc, subject, message, region, slack_url, payload, prefix,
          branch, response, result, fault, faultAt, calls, posted, log>>

Init ==
  /\ env \in [SLACK_WEBHOOK_URL : WebhookUrls, SLACK_CHANNEL : {"#alerts"},
              SLACK_USERNAME : {"reporter"}, SLACK_EMOJI : {":aws:"},
              ENVIRONMENT_NAME : EnvironmentNames, LOG_EVENTS : {"True", "False"}]
  /\ event \in [Subject : Subjects, Message : Messages, TopicArn : TopicArns]
  /\ pc = "handler"
  /\ subject = JNull /\ message = JNull /\ region = ""
  /\ slack_url = JNull
  /\ payload = JDict(<<>>)
  /\ prefix = ""
  /\ branch = ""
  /\ response = "" /\ result = ""
  /\ fault = "none" /\ faultAt = ""
  /\ calls = <<>> /\ posted = <<>> /\ log = <<>>

\* an exception leaves the invocation: nothing in the file catches it
Throw(e, at) == pc' = "fault" /\ fault' = e /\ faultAt' = at

\* lines 154-161
LambdaHandler ==
  /\ pc = "handler"
  /\ log' = IF env.LOG_EVENTS = "True" THEN Append(log, "event") ELSE log
  /\ subject' = event.Subject
  /\ message' = event.Message
  /\ region' = Split(event.TopicArn, ":")[4]
  /\ pc' = "notify"
  /\ UNCHANGED <<env, event, slack_url, payload, prefix, branch, response,
                 result, fault, faultAt, calls, posted>>

\* lines 102-103, the webhook value is a URL literal
UseWebhookUrl ==
  /\ pc = "notify"
  /\ ~NeedsDecrypt(env.SLACK_WEBHOOK_URL)
  /\ slack_url' = JStr(env.SLACK_WEBHOOK_URL)
  /\ pc' = "config"
  /\ UNCHANGED <<env, event, subject, message, region, payload, prefix, branch,
                 response, result, fault, faultAt, calls, posted, log>>

\* lines 104 and 9-16: KMS answers with the plaintext, or decrypt logs the
\* exception and returns None
Decrypt ==
  /\ pc = "notify"
  /\ NeedsDecrypt(env.SLACK_WEBHOOK_URL)
  /\ \E ok \in BOOLEAN :
       /\ slack_url' = IF ok THEN JStr(Plaintext) ELSE JNull
       /\ log' = IF ok THEN log ELSE Append(log, "decrypt failed")
  /\ calls' = Append(calls, "decrypt")
  /\ pc' = "config"
  /\ UNCHANGED <<env, event, subject, message, region, payload, prefix, branch,
                 response, result, fault, faultAt, posted>>

\* lines 106-120
Configure ==
  /\ pc = "config"
  /\ payload' = BasePayload(env.SLACK_CHANNEL, env.SLACK_USERNAME, env.SLACK_EMOJI)
  /\ prefix' = Prefix(env.ENVIRONMENT_NAME)
  /\ pc' = "parse"
  /\ UNCHANGED <<env, event, subject, message, region, slack_url, branch,
                 response, result, fault, faultAt, calls, posted, log>>

\* lines 122-126
ParseMessage ==
  /\ pc = "parse"
  /\ message' = ParsedMessage(message)
  /\ log' = IF DecodeFails(message) THEN Append(log, "JSON decode error") ELSE log
  /\ pc' = "classify"
  /\ UNCHANGED <<env, event, subject, region, slack_url, payload, prefix, branch,
                 response, result, fault, faultAt, calls, posted>>

\* the conditions of lines 128, 132, 136
ChooseBranch ==
  /\ pc = "classify"
  /\ LET c == Classify(message) IN
       IF c.err # "none"
       THEN Throw(c.err, "classify") /\ UNCHANGED branch
       ELSE pc' = "render" /\ branch' = c.val.v /\ UNCHANGED <<fault, faultAt>>
  /\ UNCHANGED <<env, event, subject, message, region, slack_url, payload, prefix,
                 response, result, calls, posted, log>>

\* the body of the branch taken: p is the envelope or the exception
Render(p) ==
  /\ IF p.err # "none"
     THEN Throw(p.err, "render") /\ UNCHANGED payload
     ELSE pc' = "post" /\ payload' = p.val /\ UNCHANGED <<fault, faultAt>>
  /\ UNCHANGED <<env, event, subject, message, region, slack_url, prefix, branch,
                 response, result, calls, posted, log>>

RenderAlarm ==
  /\ pc = "render" /\ branch = "Alarm"
  /\ Render(AlarmPayload(payload, prefix, message, region))
RenderFinding ==
  /\ pc = "render" /\ branch = "Finding"
  /\ Render(FindingPayload(payload, prefix, message, region))
RenderPreformatted ==
  /\ pc = "render" /\ branch = "Preformatted"
  /\ Render(PreformattedPayload(payload, message))
RenderGeneric ==
  /\ pc = "render" /\ branch = "Generic"
  /\ Render(GenericPayload(payload, prefix, subject, message))

\* line 143 with slack_url = None: Request raises before the try block
RequestRefused ==
  /\ pc = "post"
  /\ slack_url.t # "str"
  /\ Throw("ValueError", "post")
  /\ UNCHANGED <<env, event, subject, message, region, slack_url, payload, prefix,
                 branch, response, result, calls, posted, log>>

\* urlopen is called with the envelope
Hand ==
  /\ pc = "post"
  /\ slack_url.t = "str"
  /\ calls' = Append(calls, "urlopen")
  /\ posted' = Append(posted, payload)

\* lines 146-147: a 2xx answer
PostReturns ==
  /\ Hand
  /\ \E code \in ReturnedCodes : response' = ResponseText(code, Info)
  /\ pc' = "returned"
  /\ UNCHANGED <<env, event, subject, message, region, slack_url, payload, prefix,
                 branch, result, fault, faultAt, log>>

\* lines 149-151: urlopen raises HTTPError
PostHTTPError ==
  /\ Hand
  /\ \E code \in HTTPErrorCodes : response' = ResponseText(code, Info)
  /\ log' = Append(log, "HTTPError")
  /\ pc' = "returned"
  /\ UNCHANGED <<env, event, subject, message, region, slack_url, payload, prefix,
                 branch, result, fault, faultAt>>

\* line 146: urlopen raises URLError, which is no HTTPError
PostURLError ==
  /\ Hand
  /\ Throw("URLError", "post")
  /\ UNCHANGED <<env, event, subject, message, region, slack_url, payload, prefix,
                 branch, response, result, log>>

\* lines 163-166
HandlerReturn ==
  /\ pc = "returned"
  /\ log' = IF IsError(response) THEN Append(log, "Error: received status") ELSE log
  /\ result' = response
  /\ pc' = "done"
  /\ UNCHANGED <<env, event, subject, message, region, slack_url, payload, prefix,
                 branch, response, fault, faultAt, calls, posted>>

Next ==
  \/ LambdaHandler
  \/ UseWebhookUrl
  \/ Decrypt
  \/ Configure
  \/ ParseMessage
  \/ ChooseBranch
  \/ RenderAlarm
  \/ RenderFinding
  \/ RenderPreformatted
  \/ RenderGeneric
  \/ RequestRefused
  \/ PostReturns
  \/ PostHTTPError
  \/ PostURLError
  \/ HandlerReturn

Spec == Init /\ [][Next]_vars

(* -------------------------------------------------------- the claims *)
Handed == Len(posted) > 0
Envelope == posted[1]
\* the branch body has run and left an envelope
Assembled == pc \in {"post", "returned", "done"} \/ (pc = "fault" /\ faultAt = "post")
\* the if / elif chain has been evaluated
Classified == pc \in {"render", "post", "returned", "done", "fault"}
Logged(what) == \E i \in 1..Len(log) : log[i] = what
HasKey(m, k) == m.t = "dict" /\ Has(m, k)
StrAt(m, k, s) == HasKey(m, k) /\ Get(m, k).t = "str" /\ Get(m, k).v = s
TheAttachment == Get(payload, "attachments").v[1]
TheFields == Get(TheAttachment, "fields").v
LastField == TheFields[Len(TheFields)]

\* The shape of a message as section 3 of the specification defines it.
ShapeOf(m) ==
  IF HasKey(m, "AlarmName") THEN "Alarm"
  ELSE IF StrAt(m, "detail-type", "GuardDuty Finding") THEN "Finding"
  ELSE IF HasKey(m, "attachments") \/ HasKey(m, "text") THEN "Preformatted"
  ELSE "Generic"

\* C1 (as stated): for every message value left by the parse step, a mapping,
\* an unparsed text or any other JSON value, the if / elif chain raises
\* nothing and takes the branch of the one shape the message has.
C1_ClassificationTotal ==
  Classified =>
    /\ faultAt # "classify"
    /\ branch = ShapeOf(message)

\* C2 (as stated): a text that json.loads refuses takes the Generic branch
\* without an exception, and the envelope carries prefix + "AWS notification"
\* and one attachment whose only field is the raw text, untitled and long.
C2_UnparsedTextIsGeneric ==
  (Logged("JSON decode error") /\ Classified) =>
    /\ branch = "Generic"
    /\ faultAt \notin {"classify", "render"}
    /\ Assembled =>
         /\ Get(payload, "text") = JStr(prefix \o "AWS notification")
         /\ Len(Get(payload, "attachments").v) = 1
         /\ TheFields = << JDict(<< <<"value", event.Message>>,
                                    <<"short", JBool(FALSE)>> >>) >>

\* C3 (as stated): every envelope handed to urlopen has a text that is
\* present and not empty; it has exactly one attachment in the Alarm, Finding
\* and Generic branches, and the input's attachments in the Preformatted one.
C3_TextAlwaysPresent ==
  Handed =>
    /\ Has(Envelope, "text")
    /\ Get(Envelope, "text").t = "str" /\ Get(Envelope, "text").v # ""
    /\ branch \in {"Alarm", "Finding", "Generic"} =>
         Len(Get(Envelope, "attachments").v) = 1
    /\ (branch = "Preformatted" /\ Has(message, "attachments")) =>
         Get(Envelope, "attachments") = Get(message, "attachments")

\* C3 (amended): every envelope handed to urlopen in the Alarm, Finding or
\* Generic branch has a text that is present and not empty and exactly one
\* attachment; in the Preformatted branch text and attachments are the
\* input's when the input has them, and otherwise text is absent and
\* attachments is the empty list of the base envelope.
C3_EnvelopeShape ==
  Handed =>
    /\ branch \in {"Alarm", "Finding", "Generic"} =>
         /\ Has(Envelope, "text")
         /\ Get(Envelope, "text").t = "str" /\ Get(Envelope, "text").v # ""
         /\ Len(Get(Envelope, "attachments").v) = 1
    /\ branch = "Preformatted" =>
         /\ Has(Envelope, "text") <=> Has(message, "text")
         /\ Has(message, "text") => Get(Envelope, "text") = Get(message, "text")
         /\ Get(Envelope, "attachments") =
              IF Has(message, "attachments") THEN Get(message, "attachments")
              ELSE JList(<<>>)
\* an attachments-only message has been handed over without a text
C3_Witness ==
  /\ Handed /\ branch = "Preformatted"
  /\ ~Has(message, "text") /\ Len(Get(Envelope, "attachments").v) = 2
  /\ pc = "done"

\* the base envelope, from the configuration
ConfiguredValue(k) ==
  CASE k = "channel" -> JStr(env.SLACK_CHANNEL)
    [] k = "username" -> JStr(env.SLACK_USERNAME)
    [] k = "icon_emoji" -> JStr(env.SLACK_EMOJI)
    [] k = "attachments" -> JList(<<>>)
BaseKeys == {"channel", "username", "icon_emoji", "attachments"}

\* C4: in the Preformatted branch the envelope handed over is the shallow
\* merge of the base envelope with the input message, the input winning:
\* every key of the input carries the input's value, every base key the
\* input lacks keeps its configured value, and there is no other key.
C4_PreformattedMerge ==
  (Handed /\ branch = "Preformatted") =>
    /\ Keys(Envelope) = BaseKeys \cup Keys(message)
    /\ \A k \in Keys(message) : Get(Envelope, k) = Get(message, k)
    /\ \A k \in BaseKeys \ Keys(message) : Get(Envelope, k) = ConfiguredValue(k)
\* {"text": "hi", "channel": "#other"} overrode the channel and kept the rest
C4_Witness ==
  /\ Handed /\ branch = "Preformatted"
  /\ StrAt(message, "channel", "#other") /\ ~HasKey(message, "username")
  /\ Get(Envelope, "channel") = JStr("#other")
  /\ Get(Envelope, "text") = JStr("hi")
  /\ Get(Envelope, "username") = JStr("reporter")
  /\ Get(Envelope, "icon_emoji") = JStr(":aws:")

\* the label of an alarm: a string, null, or "" when the key is absent
AlarmLabel ==
  IF HasKey(message, "NewStateValue") /\ Get(message, "NewStateValue").t = "str"
  THEN Get(message, "NewStateValue").v ELSE ""

\* C5: for a mapping with key AlarmName, once the branch body has run, the
\* attachment color is good for OK, warning for INSUFFICIENT_DATA and danger
\* for ALARM; for any other label the invocation has ended with KeyError,
\* no envelope was built with a default color and none was handed to urlopen.
C5_AlarmColor ==
  (message.t = "dict" /\ branch = "Alarm" /\ pc # "render") =>
    /\ AlarmLabel = "OK" => Assembled /\ Get(TheAttachment, "color") = JStr("good")
    /\ AlarmLabel = "INSUFFICIENT_DATA" =>
         Assembled /\ Get(TheAttachment, "color") = JStr("warning")
    /\ AlarmLabel = "ALARM" =>
         Assembled /\ Get(TheAttachment, "color") = JStr("danger")
    /\ AlarmLabel \notin {"OK", "INSUFFICIENT_DATA", "ALARM"} =>
         /\ pc = "fault" /\ fault = "KeyError" /\ faultAt = "render"
         /\ Get(payload, "attachments") = JList(<<>>)
         /\ posted = <<>> /\ result = ""
\* an alarm with the label UNKNOWN has ended the invocation
C5_Witness ==
  /\ message.t = "dict" /\ branch = "Alarm"
  /\ AlarmLabel = "UNKNOWN"
  /\ pc = "fault" /\ fault = "KeyError" /\ posted = <<>>

\* detail.severity in hundredths, for a numeric severity
Score ==
  LET x == Get(Get(message, "detail"), "severity") IN
  IF x.t = "int" THEN x.v * 100 ELSE x.v
NumericScore ==
  /\ HasKey(message, "detail") /\ HasKey(Get(message, "detail"), "severity")
  /\ Get(Get(message, "detail"), "severity").t \in {"int", "float"}
SeverityField == TheFields[5]

\* C6: for a Finding with a numeric detail.severity s, the Severity field is
\* Low and the color #777777 when s < 4.0, Medium and warning when
\* 4.0 <= s < 7.0, High and danger when s >= 7.0.
C6_SeverityBuckets ==
  (branch = "Finding" /\ NumericScore /\ pc # "render") =>
    /\ Assembled
    /\ Get(SeverityField, "title") = JStr("Severity")
    /\ Score < 400 =>
         /\ Get(SeverityField, "value") = JStr("Low")
         /\ Get(TheAttachment, "color") = JStr("#777777")
    /\ (Score >= 400 /\ Score < 700) =>
         /\ Get(SeverityField, "value") = JStr("Medium")
         /\ Get(TheAttachment, "color") = JStr("warning")
    /\ Score >= 700 =>
         /\ Get(SeverityField, "value") = JStr("High")
         /\ Get(TheAttachment, "color") = JStr("danger")
\* a finding of severity exactly 4.0 has been rendered as Medium
C6_Witness ==
  /\ branch = "Finding" /\ NumericScore /\ Handed
  /\ Score = 400
  /\ Get(SeverityField, "value") = JStr("Medium")

\* the text an entry's value is rendered as, per section 4.2
Rendered(x) ==
  IF x.t \in {"dict", "list"} THEN Backquote \o Dumps(x) \o Backquote
  ELSE PyStr(x)

\* C7: for a mapping that took the Generic branch, the attachment has one
\* field per entry, in the mapping's order, titled with the key, valued with
\* the backquoted JSON of a mapping or list and the plain string form of
\* anything else, and short exactly when that text has fewer than 25
\* characters.
C7_GenericFields ==
  (branch = "Generic" /\ message.t = "dict" /\ Assembled) =>
    /\ Len(TheFields) = Len(message.v)
    /\ \A i \in 1..Len(message.v) :
         /\ Keys(TheFields[i]) = {"title", "value", "short"}
         /\ Get(TheFields[i], "title") = JStr(message.v[i][1])
         /\ Get(TheFields[i], "value") = JStr(Rendered(message.v[i][2]))
         /\ Get(TheFields[i], "short") =
              JBool(Len(Get(TheFields[i], "value").v) < 25)
         /\ Len(Get(TheFields[i], "value").v) = 24 =>
              Get(TheFields[i], "short") = JBool(TRUE)
         /\ Len(Get(TheFields[i], "value").v) = 25 =>
              Get(TheFields[i], "short") = JBool(FALSE)
\* a list that renders to 24 characters with its backquotes came out short
C7_Witness ==
  /\ branch = "Generic" /\ message.t = "dict" /\ Handed
  /\ Len(TheFields) = 3
  /\ message.v[2][2].t = "list"
  /\ Len(Get(TheFields[2], "value").v) = 24
  /\ Get(TheFields[2], "short") = JBool(TRUE)
  /\ Get(TheFields[1], "title") = JStr("a")

\* C8 (as stated): when delivery or secret resolution fails, lambda_handler
\* still returns the JSON text of {code, info} and the invocation never ends
\* with an exception; an error is logged by lambda_handler exactly when the
\* returned code is not a 2xx code.
C8_FailureIsReturned ==
  /\ ~(pc = "fault" /\ faultAt = "post")
  /\ pc = "done" =>
       LET r == JsonLoads(result).val IN
       /\ Keys(r) = {"code", "info"}
       /\ Logged("Error: received status")
            <=> ~(Get(r, "code").v >= 200 /\ Get(r, "code").v < 300)

\* C9: the console link is on the government host exactly when the region
\* used starts with "us-gov-"; the region used, which the link also names,
\* is the message's own "region" for a Finding and the caller's region for
\* an Alarm.
C9_LinkRegion ==
  (Assembled /\ branch \in {"Alarm", "Finding"}) =>
    LET used == IF branch = "Finding" THEN Get(message, "region").v ELSE region
        service == IF branch = "Finding" THEN "guardduty" ELSE "cloudwatch"
        link == Get(LastField, "value").v
    IN /\ StartsWith(used, "us-gov-") =>
            StartsWith(link, "https://console.amazonaws-us-gov.com/" \o service
                             \o "/home?region=" \o used \o "#")
       /\ ~StartsWith(used, "us-gov-") =>
            StartsWith(link, "https://console.aws.amazon.com/" \o service
                             \o "/home?region=" \o used \o "#")
\* a finding of a government region arrived on a topic of a standard region
C9_Witness ==
  /\ Handed /\ branch = "Finding"
  /\ region = "us-east-1"
  /\ StrAt(message, "region", "us-gov-west-1")
  /\ StartsWith(Get(LastField, "value").v, "https://console.amazonaws-us-gov.com/")

\* C10: decrypt is called at most once, first, and only when the webhook
\* value does not start with "http"; urlopen is called at most once, with
\* the assembled envelope, and never again after a failure; once urlopen
\* has been called the invocation only returns, and an ended invocation
\* takes no further step.
C10_LinearPipeline ==
  /\ calls \in {<<>>, <<"decrypt">>, <<"urlopen">>, <<"decrypt", "urlopen">>}
  /\ (Len(calls) > 0 /\ calls[1] = "decrypt") =>
       ~StartsWith(env.SLACK_WEBHOOK_URL, "http")
  /\ Len(posted) <= 1
  /\ Handed <=> (Len(calls) > 0 /\ calls[Len(calls)] = "urlopen")
  /\ Handed =>
       /\ posted[1] = payload /\ branch # ""
       /\ Has(payload, "channel") /\ Has(payload, "attachments")
       /\ pc \in {"returned", "done", "fault"}
  /\ pc \in {"done", "fault"} => ~ENABLED Next
\* a decrypted webhook answered 500: one call of each, and the invocation ended
C10_Witness ==
  /\ calls = <<"decrypt", "urlopen">>
  /\ Logged("HTTPError")
  /\ pc = "done"

====
